---- MODULE Spec2Model ----
(***************************************************************************)
(* A model of the prefix tree of src/main.rs: the Node type, insert_text,  *)
(* find_prefix, print_autocompletion, dump_dot and the dispatch in main.   *)
(*                                                                         *)
(* A Node is a record [end, children] whose children field is a function   *)
(* from the characters that are keys of the HashMap to the child Nodes.    *)
(* A string is the sequence of its characters.  A reference to a node of   *)
(* the tree is the sequence of keys that leads to it from the root.        *)
(***************************************************************************)
EXTENDS Integers, Sequences, FiniteSets, TLC

\* Bounds of the model.
MaxLen == 2
MaxWords == 3

\* u16, the type of the index of dump_dot: values 0 .. U16Mod - 1.
U16Mod == 65536

Chars == {"a", "b"}

RECURSIVE SeqsUpTo(_)
SeqsUpTo(n) ==
    IF n = 0 THEN {<<>>}
    ELSE LET shorter == SeqsUpTo(n - 1)
         IN  shorter \cup {Append(s, c) : s \in {t \in shorter : Len(t) = n - 1}, c \in Chars}

\* The lines of dictionary.txt and the prefixes of a query.
Words == SeqsUpTo(MaxLen)

\* The orders in which a HashMap may yield its keys.
Orders == {o \in [1..Cardinality(Chars) -> Chars] : \A c \in Chars : \E i \in DOMAIN o : o[i] = c}

VARIABLES
    root,      \* the trie of main
    words,     \* the set of lines inserted so far
    lines,     \* the number of lines read
    last,      \* the last line read
    op,        \* what main did last
    arg,       \* the prefix given to `complete`
    node,      \* the reference find_prefix returned
    stdout,    \* the lines written to standard output
    buffer,    \* the buffer of main after print_autocompletion
    dot,       \* the log of the lines written to trie.dot between the braces
    stderr,    \* whether something was written to standard error
    status     \* the exit status, -1 while the process runs

vars == <<root, words, lines, last, op, arg, node, stdout, buffer, dot, stderr, status>>

----
\* Node::new
NodeNew == [end |-> FALSE, children |-> [c \in {} |-> FALSE]]

\* insert_text with or_insert replaced by an unconditional insert of a new node.
RECURSIVE insert_text_overwrite(_, _)
insert_text_overwrite(n, text) ==
    IF text = <<>> THEN [n EXCEPT !.end = TRUE]
    ELSE LET ch == Head(text)
         IN  [n EXCEPT !.children =
                 (ch :> insert_text_overwrite(NodeNew, Tail(text))) @@ n.children]

\* insert_text that flips the end flag instead of setting it.
RECURSIVE insert_text_toggle(_, _)
insert_text_toggle(n, text) ==
    IF text = <<>> THEN [n EXCEPT !.end = ~n.end]
    ELSE LET ch == Head(text)
             child == IF ch \in DOMAIN n.children THEN n.children[ch] ELSE NodeNew
         IN  [n EXCEPT !.children =
                 (ch :> insert_text_toggle(child, Tail(text))) @@ n.children]

\* insert_text that marks every node on the way as an end.
RECURSIVE insert_text_markall(_, _)
insert_text_markall(n, text) ==
    IF text = <<>> THEN [n EXCEPT !.end = TRUE]
    ELSE LET ch == Head(text)
             child == IF ch \in DOMAIN n.children THEN n.children[ch] ELSE NodeNew
         IN  [end |-> TRUE,
              children |-> (ch :> insert_text_markall(child, Tail(text))) @@ n.children]

\* insert_text whose loop leaves out the last character of the text.
RECURSIVE insert_text_shallow(_, _)
insert_text_shallow(n, text) ==
    IF Len(text) <= 1 THEN [n EXCEPT !.end = TRUE]
    ELSE LET ch == Head(text)
             child == IF ch \in DOMAIN n.children THEN n.children[ch] ELSE NodeNew
         IN  [n EXCEPT !.children =
                 (ch :> insert_text_shallow(child, Tail(text))) @@ n.children]

\* insert_text: the loop descends by entry(ch).or_insert(Node::new()) and the
\* node it ends on gets end = true.
RECURSIVE insert_text(_, _)
insert_text(n, text) ==
    IF text = <<>> THEN [n EXCEPT !.end = TRUE]
    ELSE LET ch == Head(text)
             child == IF ch \in DOMAIN n.children THEN n.children[ch] ELSE NodeNew
         IN  [n EXCEPT !.children =
                 (ch :> insert_text(child, Tail(text))) @@ n.children]

\* check: whether every character of text has a child to descend into.
RECURSIVE check(_, _)
check(n, text) ==
    IF text = <<>> THEN TRUE
    ELSE /\ Head(text) \in DOMAIN n.children
         /\ check(n.children[Head(text)], Tail(text))

\* The node a reference denotes.
RECURSIVE NodeAt(_, _)
NodeAt(n, path) ==
    IF path = <<>> THEN n ELSE NodeAt(n.children[Head(path)], Tail(path))

\* find_prefix: every character of the prefix is tried on the current node; a
\* character without a child leaves the node as it is and the loop goes on.
RECURSIVE find_prefix(_, _, _)
find_prefix(r, at, prefix) ==
    IF prefix = <<>> THEN at
    ELSE LET ch == Head(prefix)
         IN  IF ch \in DOMAIN NodeAt(r, at).children
             THEN find_prefix(r, Append(at, ch), Tail(prefix))
             ELSE find_prefix(r, at, Tail(prefix))

\* The keys of a HashMap in the order its iterator yields them.
Iter(children, order) ==
    SelectSeq(order, LAMBDA c : c \in DOMAIN children)

RECURSIVE print_autocompletion(_, _, _, _)
RECURSIVE print_children(_, _, _, _, _)
RECURSIVE print_children_nopop(_, _, _, _, _)

\* The loop of print_autocompletion without the pop after the recursive call.
print_children_nopop(n, items, buf, prefix, order) ==
    IF items = <<>> THEN [out |-> <<>>, buffer |-> buf]
    ELSE LET item == Head(items)
             in == print_autocompletion(n.children[item], Append(buf, item), prefix, order)
             rest == print_children_nopop(n, Tail(items), in.buffer, prefix, order)
         IN  [out |-> in.out \o rest.out, buffer |-> rest.buffer]

\* The for loop of print_autocompletion over the children still to visit:
\* push the key, recurse into the child, pop.
print_children(n, items, buf, prefix, order) ==
    IF items = <<>> THEN [out |-> <<>>, buffer |-> buf]
    ELSE LET item == Head(items)
             in == print_autocompletion(n.children[item], Append(buf, item), prefix, order)
             popped == SubSeq(in.buffer, 1, Len(in.buffer) - 1)
             rest == print_children(n, Tail(items), popped, prefix, order)
         IN  [out |-> in.out \o rest.out, buffer |-> rest.buffer]

\* print_autocompletion: a node with end = true writes prefix followed by the
\* buffer and returns; any other node loops over its children.
print_autocompletion(n, buf, prefix, order) ==
    IF n.end
    THEN [out |-> <<prefix \o buf>>, buffer |-> buf]
    ELSE print_children(n, Iter(n.children, order), buf, prefix, order)

RECURSIVE dump_dot(_, _, _, _)
RECURSIVE dump_children(_, _, _, _, _, _)

\* The two lines dump_dot writes for a child.
NodeLine(id, label) == [kind |-> "node", id |-> id, label |-> label]
EdgeLine(src, dst, label) == [kind |-> "edge", src |-> src, dst |-> dst, label |-> label]

\* What dump_dot writes is kept as a log with one entry per iteration of its
\* loop: the lines the iteration writes itself, and under `sub` the log of the
\* recursive call it makes.  FileOf gives the lines in the order of the file.
RECURSIVE FileOf(_)
FileOf(log) ==
    IF log = <<>> THEN <<>>
    ELSE Head(log).lines \o FileOf(Head(log).sub) \o FileOf(Tail(log))

\* The for loop of dump_dot over the children still to visit: the index is
\* incremented, the node and the edge from root_index are written, and the
\* child is dumped with the shared index.  The index is a u16: at 65535 the
\* increment panics in a build with overflow checks and wraps to 0 in a build
\* without them.  A panic ends the process, so nothing is written after it.
dump_children(n, items, root_index, index, order, checks) ==
    IF items = <<>> THEN [log |-> <<>>, index |-> index, panic |-> FALSE]
    ELSE IF checks /\ index + 1 = U16Mod
    THEN [log |-> <<>>, index |-> index, panic |-> TRUE]
    ELSE LET item == Head(items)
             idx == (index + 1) % U16Mod
             own == <<NodeLine(idx, item), EdgeLine(root_index, idx, item)>>
             in == dump_dot(n.children[item], idx, order, checks)
         IN  IF in.panic
             THEN [log |-> <<[lines |-> own, sub |-> in.log]>>,
                   index |-> in.index, panic |-> TRUE]
             ELSE LET rest == dump_children(n, Tail(items), root_index, in.index,
                                            order, checks)
                  IN  [log |-> <<[lines |-> own, sub |-> in.log]>> \o rest.log,
                       index |-> rest.index, panic |-> rest.panic]

\* dump_dot: root_index is the index on entry.
dump_dot(n, index, order, checks) ==
    dump_children(n, Iter(n.children, order), index, index, order, checks)

----
Init ==
    /\ root = NodeNew
    /\ words = {}
    /\ lines = 0
    /\ last = <<>>
    /\ op = "load"
    /\ arg = <<>>
    /\ node = <<>>
    /\ stdout = <<>>
    /\ buffer = <<>>
    /\ dot = <<>>
    /\ stderr = FALSE
    /\ status = -1

\* main, lines 106-109: one line of the dictionary is read and inserted.
ReadLine(line) ==
    /\ op \in {"load", "insert"}
    /\ lines < MaxWords
    /\ root' = insert_text(root, line)
    /\ words' = words \cup {line}
    /\ lines' = lines + 1
    /\ last' = line
    /\ op' = "insert"
    /\ UNCHANGED <<arg, node, stdout, buffer, dot, stderr, status>>

\* main, the "dot" arm: the root declaration, then dump_dot from index 0.
\* A panic ends the process with status 101 and a message on standard error.
MainDot(order, checks) ==
    /\ op \in {"load", "insert"}
    /\ LET res == dump_dot(root, 0, order, checks)
       IN  /\ dot' = <<[lines |-> <<NodeLine(0, "root")>>, sub |-> <<>>]>> \o res.log
           /\ status' = IF res.panic THEN 101 ELSE 0
           /\ stderr' = res.panic
    /\ op' = "dot"
    /\ UNCHANGED <<root, words, lines, last, arg, node, stdout, buffer>>

\* main, the "complete" arm with a prefix.
MainComplete(prefix, order) ==
    /\ op \in {"load", "insert"}
    /\ LET at == find_prefix(root, <<>>, prefix)
           res == print_autocompletion(NodeAt(root, at), <<>>, prefix, order)
       IN  /\ node' = at
           /\ stdout' = res.out
           /\ buffer' = res.buffer
    /\ arg' = prefix
    /\ op' = "complete"
    /\ status' = 0
    /\ UNCHANGED <<root, words, lines, last, dot, stderr>>

\* main, the "complete" arm without a second argument: nothing is done.
MainCompleteNoPrefix ==
    /\ op \in {"load", "insert"}
    /\ op' = "complete_noprefix"
    /\ status' = 0
    /\ UNCHANGED <<root, words, lines, last, arg, node, stdout, buffer, dot, stderr>>

\* main, the `_` arm: an error and the usage on standard error, exit(1).
MainUnknown ==
    /\ op \in {"load", "insert"}
    /\ op' = "unknown"
    /\ stderr' = TRUE
    /\ status' = 1
    /\ UNCHANGED <<root, words, lines, last, arg, node, stdout, buffer, dot>>

\* main without a first argument: the usage and an error, exit(1).
MainNoArgs ==
    /\ op \in {"load", "insert"}
    /\ op' = "noargs"
    /\ stderr' = TRUE
    /\ status' = 1
    /\ UNCHANGED <<root, words, lines, last, arg, node, stdout, buffer, dot>>

Next ==
    \/ \E line \in Words : ReadLine(line)
    \/ \E order \in Orders, checks \in BOOLEAN : MainDot(order, checks)
    \/ \E prefix \in Words, order \in Orders : MainComplete(prefix, order)
    \/ MainCompleteNoPrefix
    \/ MainUnknown
    \/ MainNoArgs

Spec == Init /\ [][Next]_vars

----
\* A second specification: main after it has read a dictionary large enough
\* for the u16 index of dump_dot to matter.  The dictionary holds every line
\* of WideLen characters over WideChars; its trie has more than 65535 nodes
\* below the root.

WideLen == 8

WideChars == {"a", "b", "c", "d"}

\* The trie that inserting every line of d characters over WideChars builds.
RECURSIVE FullTrie(_)
FullTrie(d) ==
    IF d = 0 THEN [NodeNew EXCEPT !.end = TRUE]
    ELSE [end |-> FALSE, children |-> [c \in WideChars |-> FullTrie(d - 1)]]

\* Two of the orders in which a HashMap may yield the keys.
WideOrders == {<<"a", "b", "c", "d">>, <<"d", "b", "a", "c">>}

\* The prefixes of the queries: all but the last two characters of a line.
WidePrefixes == [1..(WideLen - 2) -> {"a", "b"}]

WideInit ==
    /\ root = FullTrie(WideLen)
    /\ words = [1..WideLen -> WideChars]
    /\ lines = Cardinality(WideChars) ^ WideLen
    /\ last = [i \in 1..WideLen |-> "d"]
    /\ op = "insert"
    /\ arg = <<>>
    /\ node = <<>>
    /\ stdout = <<>>
    /\ buffer = <<>>
    /\ dot = <<>>
    /\ stderr = FALSE
    /\ status = -1

WideNext ==
    \/ \E order \in WideOrders, checks \in BOOLEAN : MainDot(order, checks)
    \/ \E prefix \in WidePrefixes, order \in WideOrders : MainComplete(prefix, order)
    \/ MainCompleteNoPrefix
    \/ MainUnknown
    \/ MainNoArgs

WideSpec == WideInit /\ [][WideNext]_vars

----
\* Notions the properties are stated in.

Range(s) == {s[i] : i \in DOMAIN s}

IsPrefix(p, w) == Len(p) <= Len(w) /\ SubSeq(w, 1, Len(p)) = p

LeadingSegments(w) == {SubSeq(w, 1, k) : k \in 0..Len(w)}

\* Every sequence of keys that leads from n to a node of its subtree.
RECURSIVE PathsOf(_)
PathsOf(n) ==
    {<<>>} \cup UNION {{<<c>> \o p : p \in PathsOf(n.children[c])} : c \in DOMAIN n.children}

\* The tree that inserting the words of S in one fixed order builds.
RECURSIVE BuildFrom(_)
BuildFrom(S) ==
    IF S = {} THEN NodeNew
    ELSE LET w == CHOOSE x \in S : TRUE
         IN  insert_text(BuildFrom(S \ {w}), w)

\* The longest leading segment of prefix that is a path of r.
LongestPresent(r, prefix) ==
    CHOOSE p \in LeadingSegments(prefix) :
        /\ check(r, p)
        /\ \A q \in LeadingSegments(prefix) : check(r, q) => Len(q) <= Len(p)

----
\* C1: a `complete` query whose prefix is a path of the trie writes exactly
\* the inserted words that start with the prefix, the word that ends at the
\* prefix's own node and the words below it alike.
C1_CompletionsExact ==
    (op = "complete" /\ check(root, arg)) =>
        Range(stdout) = {w \in words : IsPrefix(arg, w)}

\* C2: find_prefix returns the node of the longest leading segment of the
\* prefix that is a path of the trie: it stops at the first missing character.
C2_StopsAtFirstMissing ==
    op = "complete" => node = LongestPresent(root, arg)

\* C3: a `complete` query whose first character is no key of the root's
\* children writes nothing.
C3_MissingPrefixIsEmpty ==
    (/\ op = "complete"
     /\ words # {}
     /\ arg # <<>>
     /\ Head(arg) \notin DOMAIN root.children) => stdout = <<>>

\* C4: following W from the root ends on a node with end = true exactly when
\* W is one of the inserted words.
C4_TerminalIffInserted ==
    \A w \in Words : (check(root, w) /\ NodeAt(root, w).end) <=> w \in words

\* A word and a longer word through its node are both inserted, and a path of
\* the tree is no inserted word.
C4_Witness ==
    /\ op = "insert"
    /\ words = {<<"a">>, <<"a", "b">>, <<"b", "a">>}
    /\ check(root, <<"b">>) /\ ~NodeAt(root, <<"b">>).end
    /\ NodeAt(root, <<"a">>).end

C6_Idempotent ==
    [][(op = "insert" /\ op' = "insert" /\ last' = last) => root' = root]_vars

\* The same word was inserted twice in a row.
C6_Witness ==
    /\ op = "insert"
    /\ lines = 2
    /\ words = {<<"a", "b">>}
    /\ last = <<"a", "b">>
    /\ NodeAt(root, <<"a", "b">>).end

\* C7: whatever the order (and the repetitions) of the inserts, the tree is
\* the one that inserting the same words in one fixed order builds; and from
\* every tree, two further inserts commute.
C7_OrderIndependent ==
    op \in {"load", "insert"} =>
        /\ root = BuildFrom(words)
        /\ \A a, b \in Words :
               insert_text(insert_text(root, a), b) = insert_text(insert_text(root, b), a)

\* A word was inserted after a longer word through its node.
C7_Witness ==
    /\ op = "insert"
    /\ lines = 3
    /\ words = {<<"a", "b">>, <<"b">>, <<"a">>}
    /\ last = <<"a">>

\* C9: a command line without a subcommand, with an unknown subcommand, or
\* with `complete` and no prefix ends with a non-zero status and a message.
C9_UsageErrors ==
    op \in {"noargs", "unknown", "complete_noprefix"} => (status # 0 /\ stderr)

\* C10: every line print_autocompletion writes is the label followed by a
\* path from the start node to a node with end = true, no line is written
\* twice, and the buffer is empty again when the call has returned.
C10_EmittedAreTerminal ==
    op = "complete" =>
        /\ \A i \in DOMAIN stdout :
               \E p \in PathsOf(NodeAt(root, node)) :
                   /\ stdout[i] = arg \o p
                   /\ NodeAt(root, node \o p).end
        /\ \A i, j \in DOMAIN stdout : stdout[i] = stdout[j] => i = j
        /\ buffer = <<>>

\* Two words below the start node were written, two levels down the loop.
C10_Witness ==
    /\ op = "complete"
    /\ node = <<>>
    /\ arg = <<"b">>
    /\ Range(stdout) = {<<"b", "a", "a">>, <<"b", "a", "b">>}

----
\* The graph that the lines of trie.dot describe.

NodeDecls == LET file == FileOf(dot) IN {file[i] : i \in {j \in DOMAIN file : file[j].kind = "node"}}
EdgeDecls == LET file == FileOf(dot) IN {file[i] : i \in {j \in DOMAIN file : file[j].kind = "edge"}}
NodeDeclCount == LET file == FileOf(dot) IN Cardinality({j \in DOMAIN file : file[j].kind = "node"})
EdgeDeclCount == LET file == FileOf(dot) IN Cardinality({j \in DOMAIN file : file[j].kind = "edge"})
DeclaredIds == {d.id : d \in NodeDecls}

\* Every identifier but Node_0 is the target of one edge, which comes from a
\* smaller identifier; so following the edges back from an identifier ends.
DotIsRooted ==
    LET edges == EdgeDecls
    IN  /\ \A e \in edges : e.src < e.dst
        /\ \A id \in DeclaredIds \ {0} : Cardinality({e \in edges : e.dst = id}) = 1

\* The labels of the edges that lead from Node_0 to an identifier.
RECURSIVE DotPath(_, _)
DotPath(edges, id) ==
    IF id = 0 THEN <<>>
    ELSE LET e == CHOOSE x \in edges : x.dst = id
         IN  Append(DotPath(edges, e.src), e.label)

\* C8: the export declares every node of the trie once, under an identifier
\* of its own, and writes one edge per parent and child: the edges run from
\* the parent's identifier to the child's, labelled with the child's
\* character, so the graph they describe is the trie.
C8_DotIsTheTrie ==
    op = "dot" =>
        /\ NodeDeclCount = Cardinality(PathsOf(root))
        /\ Cardinality(DeclaredIds) = NodeDeclCount
        /\ EdgeDeclCount = Cardinality(PathsOf(root)) - 1
        /\ Cardinality(EdgeDecls) = EdgeDeclCount
        /\ NodeLine(0, "root") \in NodeDecls
        /\ \A e \in EdgeDecls : {e.src, e.dst} \subseteq DeclaredIds
        /\ DotIsRooted
        /\ LET edges == EdgeDecls
           IN  /\ {DotPath(edges, id) : id \in DeclaredIds} = PathsOf(root)
               /\ \A d \in NodeDecls :
                      d.id # 0 => d.label = DotPath(edges, d.id)[Len(DotPath(edges, d.id))]

\* FullTrie is the tree the inserts build (here for lines of MaxLen characters).
FullTrieIsLoaded ==
    FullTrie(MaxLen) = BuildFrom([1..MaxLen -> WideChars])

====
